---- MODULE Spec2Model ----
(***************************************************************************)
(* A model of check_braces.py: the script reads one text file, strips      *)
(* quoted substrings and line comments from every line with two regular    *)
(* expression substitutions, keeps two running counters of braces and      *)
(* parentheses, records the lines after which a counter is negative and    *)
(* prints the first ten records and the final counters.                    *)
(*                                                                         *)
(* A string is a sequence of one-character strings.  A line as returned    *)
(* by readlines() carries its terminating newline, except possibly the     *)
(* last line of the file.                                                  *)
(***************************************************************************)
EXTENDS Integers, Sequences, FiniteSets, TLC

VARIABLES file, pc, lines, i, line, clean_line, pos,
          brace_count, paren_count, problem_lines, shown, out

vars == <<file, pc, lines, i, line, clean_line, pos,
          brace_count, paren_count, problem_lines, shown, out>>

----------------------------------------------------------------------------
(* Characters *)

DQ == "\""
SQ == "'"
NL == "\n"
SP == " "

\* The characters str.strip() removes at both ends (those the model has).
Whitespace == {SP, NL}

----------------------------------------------------------------------------
(* Bounds of the model and the files it scans *)

\* Longest content of the line of a one-line file.
MaxLineLen == 5
\* Most lines of a file made of the lines of ShortLineSet.
MaxShortLines == 3
\* Most lines of a file made of the lines of LongLineSet.
MaxLongLines == 11

\* Characters of the one-line files: both quote kinds, the comment
\* character and a closing delimiter.
LineAlphabet == {DQ, SQ, "/", ")"}

ShortLineSet ==
    { <<"{">>, <<"}">>, <<"(", "{">>, <<"}", "{">>, <<SP, "x", ")", SP>> }

LongLineSet == { <<"}">>, <<"{">> }

SeqsUpTo(S, n) == UNION { [1..m -> S] : m \in 0..n }

\* File contents as sequences of lines without terminators: the one-line
\* files over LineAlphabet and the files of a few lines of ShortLineSet,
LinesContents ==
    { <<l>> : l \in SeqsUpTo(LineAlphabet, MaxLineLen) }
    \cup SeqsUpTo(ShortLineSet, MaxShortLines)

\* and the files of many lines of LongLineSet.
LongContents == SeqsUpTo(LongLineSet, MaxLongLines)

\* The lines of a file: every line ends with a newline, except the last
\* one when the file does not end with a newline.
Terminate(c, eofNewline) ==
    [n \in 1..Len(c) |->
        IF n < Len(c) \/ eofNewline THEN c[n] \o <<NL>> ELSE c[n]]

\* The files scanned.  A file without a final newline has a non-empty
\* last line; such files are taken among the files of few lines.
Files ==
    { Terminate(c, TRUE) : c \in LinesContents \cup LongContents }
    \cup { Terminate(c, FALSE) :
             c \in { d \in LinesContents : d # <<>> /\ d[Len(d)] # <<>> } }

----------------------------------------------------------------------------
(* The two substitutions of the cleaning step *)

IsQuote(c) == c \in {DQ, SQ}

\* The least element of a non-empty set of integers.
Least(S) == CHOOSE x \in S : \A y \in S : x <= y

\* re.sub(r'["\'].*?["\']', '', s): scanning from the left, a quote
\* character of either kind followed, with no newline in between, by a
\* quote character of either kind is removed together with what lies
\* between them, up to the nearest such closing character; the scan goes
\* on after the removed text.
RECURSIVE StripQuoted(_)
StripQuoted(s) ==
    IF s = <<>> THEN <<>>
    ELSE LET closing == { j \in 2..Len(s) :
                            /\ IsQuote(s[j])
                            /\ \A m \in 2..(j - 1) : s[m] # NL }
         IN  IF IsQuote(Head(s)) /\ closing # {}
             THEN StripQuoted(SubSeq(s, Least(closing) + 1, Len(s)))
             ELSE <<Head(s)>> \o StripQuoted(Tail(s))

\* The positions at which '//.*$' matches: two slashes, then no newline
\* up to the end of the string or up to a newline that ends the string.
CommentStarts(s) ==
    { p \in 1..(Len(s) - 1) :
        /\ s[p] = "/"
        /\ s[p + 1] = "/"
        /\ \A m \in (p + 2)..(Len(s) - 1) : s[m] # NL }

\* re.sub(r'//.*$', '', s): the leftmost match is removed; '.' does not
\* match the newline, so a newline that ends the string stays.
StripComment(s) ==
    IF CommentStarts(s) = {} THEN s
    ELSE LET p == Least(CommentStarts(s))
         IN  SubSeq(s, 1, p - 1)
             \o (IF s[Len(s)] = NL THEN <<NL>> ELSE <<>>)

\* The other order of the two substitutions.
CleanLineCommentFirst(l) == StripQuoted(StripComment(l))

\* clean_line of a line: quoted substrings first, then the comment.
CleanLine(l) == StripComment(StripQuoted(l))

----------------------------------------------------------------------------
(* Counting, recording and printing *)

\* The closing brace is not counted.
BraceDeltaOpenOnly(c) == IF c = "{" THEN 1 ELSE 0

BraceDelta(c) == IF c = "{" THEN 1 ELSE IF c = "}" THEN -1 ELSE 0

\* The two parentheses the wrong way round.
ParenDeltaSwapped(c) == IF c = "(" THEN -1 ELSE IF c = ")" THEN 1 ELSE 0

ParenDelta(c) == IF c = "(" THEN 1 ELSE IF c = ")" THEN -1 ELSE 0

\* A record only when the brace counter is negative.
IsProblemBraceOnly(b, p) == b < 0

\* A record only when both counters are negative.
IsProblemBoth(b, p) == b < 0 /\ p < 0

\* The test of the record step.
IsProblem(b, p) == b < 0 \/ p < 0

\* The loop stops one line early.
MoreLinesButLast(n, ls) == n < Len(ls) - 1

\* The for loop has a line left after n lines.
MoreLines(n, ls) == n < Len(ls)

\* str.strip(): leading and trailing whitespace removed.
RECURSIVE LStrip(_)
LStrip(s) ==
    IF s # <<>> /\ Head(s) \in Whitespace THEN LStrip(Tail(s)) ELSE s

RECURSIVE RStrip(_)
RStrip(s) ==
    IF s # <<>> /\ s[Len(s)] \in Whitespace
    THEN RStrip(SubSeq(s, 1, Len(s) - 1)) ELSE s

\* Only the leading whitespace removed.
StripLeft(s) == LStrip(s)

Strip(s) == RStrip(LStrip(s))

\* s[:n]
Take(s, n) == SubSeq(s, 1, IF Len(s) < n THEN Len(s) ELSE n)

PrintLimit == 10
TextLimit == 80

\* Every record printed.
PrintedAll(records) == records

\* problem_lines[:10]
Printed(records) == Take(records, PrintLimit)

Header == <<"header">>

\* The two lines printed for a record.
RecordOutput(r) ==
    << <<"line", r[1], r[2], r[3]>>, <<"text", Take(r[4], TextLimit)>> >>

FinalOutput(b, p) == <<"final", b, p>>

----------------------------------------------------------------------------
(* The script, step by step *)

Init ==
    /\ file \in Files
    /\ pc = "open"
    /\ lines = <<>>
    /\ i = 0
    /\ line = <<>>
    /\ clean_line = <<>>
    /\ pos = 0
    /\ brace_count = 0
    /\ paren_count = 0
    /\ problem_lines = <<>>
    /\ shown = 0
    /\ out = <<>>

\* open() and readlines() succeed; the counters and the list are set up.
Open ==
    /\ pc = "open"
    /\ lines' = file
    /\ brace_count' = 0
    /\ paren_count' = 0
    /\ problem_lines' = <<>>
    /\ pc' = "for"
    /\ UNCHANGED <<file, i, line, clean_line, pos, shown, out>>

\* open() raises: the run ends before anything else happens.
OpenFails ==
    /\ pc = "open"
    /\ pc' = "failed"
    /\ UNCHANGED <<file, lines, i, line, clean_line, pos,
                   brace_count, paren_count, problem_lines, shown, out>>

\* The loop takes the next line and cleans it.
NextLine ==
    /\ pc = "for"
    /\ MoreLines(i, lines)
    /\ i' = i + 1
    /\ line' = lines[i + 1]
    /\ clean_line' = CleanLine(lines[i + 1])
    /\ pos' = 0
    /\ pc' = "chars"
    /\ UNCHANGED <<file, lines, brace_count, paren_count, problem_lines,
                   shown, out>>

\* One character of the cleaned line.
CountChar ==
    /\ pc = "chars"
    /\ pos < Len(clean_line)
    /\ pos' = pos + 1
    /\ brace_count' = brace_count + BraceDelta(clean_line[pos + 1])
    /\ paren_count' = paren_count + ParenDelta(clean_line[pos + 1])
    /\ UNCHANGED <<file, pc, lines, i, line, clean_line, problem_lines,
                   shown, out>>

\* After the line's characters: the record, if a counter is negative.
EndLine ==
    /\ pc = "chars"
    /\ pos = Len(clean_line)
    /\ problem_lines' =
         IF IsProblem(brace_count, paren_count)
         THEN Append(problem_lines,
                     <<i, brace_count, paren_count, Strip(line)>>)
         ELSE problem_lines
    /\ pc' = "for"
    /\ UNCHANGED <<file, lines, i, line, clean_line, pos,
                   brace_count, paren_count, shown, out>>

\* The loop is over; the header is printed.
PrintHeader ==
    /\ pc = "for"
    /\ ~MoreLines(i, lines)
    /\ out' = Append(out, Header)
    /\ shown' = 0
    /\ pc' = "records"
    /\ UNCHANGED <<file, lines, i, line, clean_line, pos,
                   brace_count, paren_count, problem_lines>>

\* One record of problem_lines[:10] is printed.
PrintRecord ==
    /\ pc = "records"
    /\ shown < Len(Printed(problem_lines))
    /\ out' = out \o RecordOutput(Printed(problem_lines)[shown + 1])
    /\ shown' = shown + 1
    /\ UNCHANGED <<file, pc, lines, i, line, clean_line, pos,
                   brace_count, paren_count, problem_lines>>

\* The final counts are printed and the script ends.
PrintFinal ==
    /\ pc = "records"
    /\ shown = Len(Printed(problem_lines))
    /\ out' = Append(out, FinalOutput(brace_count, paren_count))
    /\ pc' = "done"
    /\ UNCHANGED <<file, lines, i, line, clean_line, pos,
                   brace_count, paren_count, problem_lines, shown>>

Next ==
    \/ Open
    \/ OpenFails
    \/ NextLine
    \/ CountChar
    \/ EndLine
    \/ PrintHeader
    \/ PrintRecord
    \/ PrintFinal

Spec == Init /\ [][Next]_vars

\* The interpreter runs the script on without pause.
FairSpec == Spec /\ WF_vars(Next)

----------------------------------------------------------------------------
(* What the properties below speak of, stated without the steps above *)

Occurrences(s, c) == Cardinality({ q \in 1..Len(s) : s[q] = c })

\* Opening minus closing delimiters of one kind in a text.
NetOf(s, open, close) == Occurrences(s, open) - Occurrences(s, close)

Prefix(s, n) == [q \in 1..n |-> s[q]]

\* The counted text of the first n lines: their cleaned lines on end.
RECURSIVE CountedText(_, _)
CountedText(ls, n) ==
    IF n = 0 THEN <<>> ELSE CountedText(ls, n - 1) \o CleanLine(ls[n])

\* The balance of each kind once the first n lines have been counted.
BraceAfter(ls, n) == NetOf(CountedText(ls, n), "{", "}")
ParenAfter(ls, n) == NetOf(CountedText(ls, n), "(", ")")

\* The lines after which a balance is negative.
NegativeLines(ls) ==
    { n \in 1..Len(ls) : BraceAfter(ls, n) < 0 \/ ParenAfter(ls, n) < 0 }

\* A text without its leading and trailing whitespace.
Trimmed(s) ==
    LET inner == { q \in 1..Len(s) : s[q] \notin Whitespace }
    IN  IF inner = {} THEN <<>>
        ELSE LET first == CHOOSE q \in inner : \A r \in inner : q <= r
                 last == CHOOSE q \in inner : \A r \in inner : q >= r
             IN  [q \in 1..(last - first + 1) |-> s[first + q - 1]]

\* Every line of the file has been processed.
ScanOver ==
    \/ pc = "for" /\ i = Len(lines)
    \/ pc \in {"records", "done"}

\* The characters of the current line have all been counted.
LineCounted == pc = "chars" /\ pos = Len(clean_line)

\* A balance falls below zero somewhere inside line n.
DipsWithin(ls, n) ==
    \E q \in 1..Len(CleanLine(ls[n])) :
        LET seen == Prefix(CleanLine(ls[n]), q)
        IN  \/ BraceAfter(ls, n - 1) + NetOf(seen, "{", "}") < 0
            \/ ParenAfter(ls, n - 1) + NetOf(seen, "(", ")") < 0

----------------------------------------------------------------------------
\* C1: after the scan the records are, in file order, exactly the lines at
\* whose end a balance is negative, each with its line number, the two
\* balances at the end of that line and the trimmed text of the line; a
\* line on which a balance dips and recovers has no record.
C1_RecordsAreNegativeLineEnds ==
    ScanOver =>
        LET negative == NegativeLines(lines)
        IN
        /\ Len(problem_lines) = Cardinality(negative)
        /\ \A k \in 1..Len(problem_lines) :
             LET r == problem_lines[k]
             IN  /\ r[1] \in negative
                 /\ r[2] = BraceAfter(lines, r[1])
                 /\ r[3] = ParenAfter(lines, r[1])
                 /\ r[4] = Trimmed(lines[r[1]])
                 /\ k > 1 => problem_lines[k - 1][1] < r[1]

\* A scanned file with a record and with a line that dips and recovers.
C1_Witness ==
    /\ ScanOver
    /\ problem_lines # <<>>
    /\ \E n \in 1..Len(lines) :
         DipsWithin(lines, n) /\ n \notin NegativeLines(lines)

----------------------------------------------------------------------------
\* C2: the records printed are the first min(10, N) of the N records, in
\* order, and the totals printed are the balances after the last line of
\* the file.
C2_FirstTenAndFinalTotals ==
    pc = "done" =>
        LET N == Len(problem_lines)
            M == IF N < PrintLimit THEN N ELSE PrintLimit
        IN  /\ Len(out) = 2 * M + 2
            /\ out[1] = Header
            /\ \A k \in 1..M :
                 /\ out[2 * k] = <<"line", problem_lines[k][1],
                                   problem_lines[k][2], problem_lines[k][3]>>
                 /\ out[2 * k + 1][1] = "text"
            /\ out[Len(out)] = <<"final", BraceAfter(lines, Len(lines)),
                                 ParenAfter(lines, Len(lines))>>

\* More than ten records, and totals that are not those of the tenth.
C2_Witness ==
    /\ pc = "done"
    /\ Len(problem_lines) > PrintLimit
    /\ brace_count # problem_lines[PrintLimit][2]

----------------------------------------------------------------------------
\* C5 as claimed: every record belongs to a line on which a balance that
\* was not negative before the line is negative at its end.
C5_OnlyFirstCrossingRecorded ==
    \A k \in 1..Len(problem_lines) :
        LET r == problem_lines[k]
        IN  \/ r[2] < 0 /\ BraceAfter(lines, r[1] - 1) >= 0
            \/ r[3] < 0 /\ ParenAfter(lines, r[1] - 1) >= 0

\* C5 as amended: the step that ends a line appends one record, for that
\* line, whenever a balance is negative then, also when that balance was
\* negative before the line, and appends nothing otherwise.
C5_RecordedWheneverNegative ==
    [][LineCounted /\ pc' = "for" =>
         IF brace_count < 0 \/ paren_count < 0
         THEN /\ Len(problem_lines') = Len(problem_lines) + 1
              /\ problem_lines'[Len(problem_lines')][1] = i
              /\ Prefix(problem_lines', Len(problem_lines)) = problem_lines
         ELSE problem_lines' = problem_lines]_vars

\* A record of a line before which the balances were negative already.
C5_Witness ==
    \E k \in 1..Len(problem_lines) :
        LET r == problem_lines[k]
        IN  /\ r[2] < 0 => BraceAfter(lines, r[1] - 1) < 0
            /\ r[3] < 0 => ParenAfter(lines, r[1] - 1) < 0

----------------------------------------------------------------------------
\* C6: when the counted text of the file is balanced in both kinds and no
\* prefix of it has more closing than opening delimiters of a kind, there
\* is no record after the scan and both balances are 0.
NeverNegative(t) ==
    \A q \in 0..Len(t) :
        /\ NetOf(Prefix(t, q), "{", "}") >= 0
        /\ NetOf(Prefix(t, q), "(", ")") >= 0

Balanced(t) == NetOf(t, "{", "}") = 0 /\ NetOf(t, "(", ")") = 0

C6_BalancedInputIsClean ==
    LET t == CountedText(lines, Len(lines))
    IN  ScanOver /\ Balanced(t) /\ NeverNegative(t) =>
            /\ problem_lines = <<>>
            /\ brace_count = 0
            /\ paren_count = 0

\* A balanced file with delimiters of both kinds in it.
C6_Witness ==
    LET t == CountedText(lines, Len(lines))
    IN  /\ pc = "done"
        /\ Balanced(t)
        /\ NeverNegative(t)
        /\ Occurrences(t, "}") > 0
        /\ Occurrences(t, ")") > 0

----------------------------------------------------------------------------
\* C9: a step that counts a character c of the cleaned line changes
\* brace_count by +1 for "{" and -1 for "}", paren_count by +1 for "(" and
\* -1 for ")", and nothing else; no other step of the scan changes a
\* counter.
C9_PerCharacterEffect ==
    [][IF pc = "chars" /\ pos' = pos + 1
       THEN LET c == clean_line[pos + 1]
            IN  /\ c = "{" => brace_count' = brace_count + 1
                /\ c = "}" => brace_count' = brace_count - 1
                /\ c \notin {"{", "}"} => brace_count' = brace_count
                /\ c = "(" => paren_count' = paren_count + 1
                /\ c = ")" => paren_count' = paren_count - 1
                /\ c \notin {"(", ")"} => paren_count' = paren_count
       ELSE /\ brace_count' = brace_count
            /\ paren_count' = paren_count]_vars

\* A later line being counted with both balances carried over from the
\* lines before it, a closing parenthesis just counted.
C9_Witness ==
    /\ pc = "chars"
    /\ i > 1
    /\ pos > 0
    /\ clean_line[pos] = ")"
    /\ brace_count # 0
    /\ paren_count # 0

----------------------------------------------------------------------------
(* Quoted literals and comments as the text itself has them *)

IsDelimiter(c) == c \in {"{", "}", "(", ")"}

\* The literals of a text from position `from` on: a quote character and
\* the next quote character of the same kind delimit a literal; a quote
\* character with no partner is an ordinary character.
RECURSIVE Literals(_, _)
Literals(s, from) ==
    IF from > Len(s) THEN {}
    ELSE LET partners == { j \in (from + 1)..Len(s) : s[j] = s[from] }
         IN  IF IsQuote(s[from]) /\ partners # {}
             THEN {<<from, Least(partners)>>}
                  \cup Literals(s, Least(partners) + 1)
             ELSE Literals(s, from + 1)

\* The position of the first "//" that no literal encloses, 0 if none.
RECURSIVE CommentAt(_, _)
CommentAt(s, from) ==
    IF from >= Len(s) THEN 0
    ELSE LET partners == { j \in (from + 1)..Len(s) : s[j] = s[from] }
         IN  IF s[from] = "/" /\ s[from + 1] = "/" THEN from
             ELSE IF IsQuote(s[from]) /\ partners # {}
                  THEN CommentAt(s, Least(partners) + 1)
                  ELSE CommentAt(s, from + 1)

\* The substrings the first substitution removes, as pairs of positions.
RECURSIVE RemovedSpans(_, _)
RemovedSpans(s, from) ==
    IF from > Len(s) THEN {}
    ELSE LET closers == { j \in (from + 1)..Len(s) :
                            /\ IsQuote(s[j])
                            /\ \A m \in (from + 1)..(j - 1) : s[m] # NL }
         IN  IF IsQuote(s[from]) /\ closers # {}
             THEN {<<from, Least(closers)>>}
                  \cup RemovedSpans(s, Least(closers) + 1)
             ELSE RemovedSpans(s, from + 1)

\* The characters of s at the positions of P, in order.
Pick(s, P) ==
    [k \in 1..Cardinality(P) |->
        s[CHOOSE q \in P : Cardinality({r \in P : r < q}) = k - 1]]

\* What is left of a text once the spans are taken out.
Without(s, spans) ==
    Pick(s, { q \in 1..Len(s) :
                \A sp \in spans : q < sp[1] \/ q > sp[2] })

\* A text up to its first "//".
BeforeSlashes(s) ==
    LET starts == { q \in 1..(Len(s) - 1) : s[q] = "/" /\ s[q + 1] = "/" }
    IN  IF starts = {} THEN s ELSE Prefix(s, Least(starts) - 1)

\* The balances at the end of the current line are those before the line
\* plus the net delimiters of text t.
LineAdds(t) ==
    /\ brace_count = BraceAfter(lines, i - 1) + NetOf(t, "{", "}")
    /\ paren_count = ParenAfter(lines, i - 1) + NetOf(t, "(", ")")

----------------------------------------------------------------------------
\* C3: when every brace and parenthesis of a line lies inside a literal
\* delimited by two quote characters of the same kind, the line changes
\* neither counter.
C3_QuotedDelimitersNotCounted ==
    LineCounted =>
        LET inside == Literals(line, 1)
        IN  (\A q \in 1..Len(line) :
                IsDelimiter(line[q]) =>
                    \E sp \in inside : sp[1] < q /\ q < sp[2])
            => LineAdds(<<>>)

----------------------------------------------------------------------------
\* C4: when a line has a "//" that no literal encloses, the line changes
\* the counters as its text before that "//" alone does.
C4_CommentTextNotCounted ==
    LineCounted /\ CommentAt(line, 1) > 0 =>
        LineAdds(CleanLine(Prefix(line, CommentAt(line, 1) - 1)))

----------------------------------------------------------------------------
\* C7: a run starts from zero counters and no record, and what it prints
\* is a function of the content of the file alone: the header, the lines
\* of the first ten records and the final totals, as the file has them.
ExpectedRecords(f) ==
    LET negative == NegativeLines(f)
    IN  [k \in 1..Cardinality(negative) |->
           LET n == CHOOSE q \in negative :
                       Cardinality({r \in negative : r < q}) = k - 1
           IN  <<n, BraceAfter(f, n), ParenAfter(f, n), Trimmed(f[n])>>]

ExpectedOutput(f) ==
    LET recs == ExpectedRecords(f)
        M == IF Len(recs) < PrintLimit THEN Len(recs) ELSE PrintLimit
    IN  [j \in 1..(2 * M + 2) |->
           IF j = 1 THEN <<"header">>
           ELSE IF j = 2 * M + 2
                THEN <<"final", BraceAfter(f, Len(f)), ParenAfter(f, Len(f))>>
                ELSE LET r == recs[j \div 2]
                     IN  IF j % 2 = 0
                         THEN <<"line", r[1], r[2], r[3]>>
                         ELSE <<"text",
                                Prefix(r[4], IF Len(r[4]) < TextLimit
                                             THEN Len(r[4]) ELSE TextLimit)>>]

C7_OutputIsFunctionOfFile ==
    /\ pc = "for" /\ i = 0 =>
         brace_count = 0 /\ paren_count = 0 /\ problem_lines = <<>>
    /\ pc = "done" => out = ExpectedOutput(file)

\* A finished run that printed a record of a line with whitespace at both
\* ends.
C7_Witness ==
    /\ pc = "done"
    /\ \E k \in 1..Len(problem_lines) :
         LET l == file[problem_lines[k][1]]
         IN  l[1] = SP /\ Len(problem_lines[k][4]) < Len(l) - 2

----------------------------------------------------------------------------
\* C8: a run fails only at open(), before it has scanned or printed
\* anything; once the file is read the run goes through every line, ends,
\* and has printed the header first and the final counts last.
Finished ==
    /\ pc = "done"
    /\ i = Len(lines)
    /\ out[1] = <<"header">>
    /\ out[Len(out)] = <<"final", brace_count, paren_count>>

----------------------------------------------------------------------------
\* C10: when a "//" lies inside a quoted substring that the first
\* substitution removes, it starts no comment: the line changes the
\* counters as the text left by that removal does, up to the first "//"
\* of that text if it has one.
SlashesRemoved(l) ==
    \E sp \in RemovedSpans(l, 1) :
        \E q \in (sp[1] + 1)..(sp[2] - 2) : l[q] = "/" /\ l[q + 1] = "/"

C10_QuotedSlashesStartNoComment ==
    LineCounted /\ SlashesRemoved(line) =>
        LineAdds(BeforeSlashes(Without(line, RemovedSpans(line, 1))))

\* A line with "//" inside a removed substring and a closing parenthesis
\* after it that has been counted.
C10_Witness ==
    /\ LineCounted
    /\ SlashesRemoved(line)
    /\ i = 1
    /\ paren_count < 0

====
